---- MODULE Spec2Model ----
(***************************************************************************)
(* formatRelative (src/formatRelative/index.ts) of date-fns.               *)
(*                                                                         *)
(* One call of formatRelative(dirtyDate, dirtyBaseDate, options) is run    *)
(* statement by statement.  Init draws the arguments, the process-wide     *)
(* default options and the runtime's time zone; pc is the position in the  *)
(* function body; calls is the log of the collaborators invoked so far.    *)
(***************************************************************************)
EXTENDS Integers, Sequences, FiniteSets

(***************************************************************************)
(* JavaScript values.  Every value is a record with the same three fields  *)
(* so that any two of them can be compared:                                *)
(*   k    the kind: "undefined", "null", "nan", "num", "date"              *)
(*   n    the integer part of a number (truncated toward zero), or the     *)
(*        time value of a Date in milliseconds                             *)
(*   frac TRUE when a number has a non-zero fractional part                *)
(* An Invalid Date (a Date whose time value is NaN) has kind               *)
(* "invalidDate".                                                          *)
(***************************************************************************)
Undefined == [k |-> "undefined", n |-> 0, frac |-> FALSE]

Null == [k |-> "null", n |-> 0, frac |-> FALSE]

NaN == [k |-> "nan", n |-> 0, frac |-> FALSE]

Num(i) == [k |-> "num", n |-> i, frac |-> FALSE]

Frac(i) == [k |-> "num", n |-> i, frac |-> TRUE]

DateOf(t) == [k |-> "date", n |-> t, frac |-> FALSE]

InvalidDate == [k |-> "invalidDate", n |-> 0, frac |-> FALSE]

\* a ?? b
Nullish(v) == v.k \in {"undefined", "null"}

Coalesce(a, b) == IF Nullish(a) THEN b ELSE a

(***************************************************************************)
(* Bounds of the model.                                                    *)
(***************************************************************************)
\* dates lie up to MaxDays days before and after the epoch
MaxDays == 8

(***************************************************************************)
(* Time.                                                                   *)
(***************************************************************************)
MILLISECONDS_IN_HOUR == 3600000

MILLISECONDS_IN_DAY == 86400000

\* The runtime's time zone: local time is UTC + std hours before the
\* instant `at`, UTC + dst hours from it on.
Zone(std, dst, at) == [std |-> std, dst |-> dst, at |-> at]

Zones ==
    { Zone(0, 0, 0),
      \* spring forward, west of Greenwich (02:00 local -> 03:00)
      Zone(-5, -4, MILLISECONDS_IN_DAY + 7 * MILLISECONDS_IN_HOUR),
      \* fall back, east of Greenwich (03:00 local -> 02:00)
      Zone(2, 1, MILLISECONDS_IN_HOUR - 2 * MILLISECONDS_IN_DAY) }

LocalOffset(z, t) ==
    (IF t < z.at THEN z.std ELSE z.dst) * MILLISECONDS_IN_HOUR

\* the date's local calendar fields read as if they were UTC fields
LocalAsUTC(z, t) == t + LocalOffset(z, t)

\* _lib/getTimezoneOffsetInMilliseconds: date.getTime() - utcDate.getTime(),
\* utcDate being Date.UTC(local fields of date)
getTimezoneOffsetInMilliseconds(z, d) ==
    IF d.k = "date" THEN Num(d.n - LocalAsUTC(z, d.n)) ELSE NaN

\* subMilliseconds(date, amount) = addMilliseconds(date, -amount)
subMilliseconds(d, amount) ==
    IF d.k = "date" /\ amount.k = "num" THEN DateOf(d.n - amount.n)
    ELSE InvalidDate

\* toDate: clones a Date, makes a Date of a number, Invalid Date otherwise
toDate(v) ==
    CASE v.k = "date" -> v
      [] v.k = "num" -> DateOf(v.n)
      [] OTHER -> InvalidDate

\* index of the local calendar day an instant falls on
LocalDay(z, t) == LocalAsUTC(z, t) \div MILLISECONDS_IN_DAY

LocalHour(z, t) ==
    (LocalAsUTC(z, t) % MILLISECONDS_IN_DAY) \div MILLISECONDS_IN_HOUR

\* differenceInCalendarDays(dateLeft, dateRight): the start of each local
\* day, made zone-independent, subtracted and divided by a day; NaN when
\* either date is invalid
differenceInCalendarDays(z, l, r) ==
    IF l.k = "date" /\ r.k = "date"
    THEN LET timestampLeft == LocalDay(z, l.n) * MILLISECONDS_IN_DAY
             timestampRight == LocalDay(z, r.n) * MILLISECONDS_IN_DAY
         IN  Num((timestampLeft - timestampRight) \div MILLISECONDS_IN_DAY)
    ELSE NaN

\* global isNaN on the result of differenceInCalendarDays
isNaN(v) == v.k # "num"

\* _lib/toInteger: NaN for null, true, false and NaN; otherwise the number
\* truncated toward zero
toInteger(v) ==
    IF v.k = "num" THEN Num(v.n) ELSE NaN

\* _lib/requiredArgs(required, args): TRUE when it throws the TypeError
requiredArgs(required, nargs) == nargs < required

(***************************************************************************)
(* Locales.  A locale object carries its three capabilities (each a JS     *)
(* value that is a function when present) and its options.weekStartsOn.    *)
(* kind is "undefined" where no locale object is given.                    *)
(***************************************************************************)
Locale(name, localize, formatLong, formatRelative, ws) ==
    [kind |-> "object", name |-> name, localize |-> localize,
     formatLong |-> formatLong, formatRelative |-> formatRelative,
     weekStartsOn |-> ws]

UndefinedLocale ==
    [kind |-> "undefined", name |-> "", localize |-> "undefined",
     formatLong |-> "undefined", formatRelative |-> "undefined",
     weekStartsOn |-> Undefined]

\* the truthiness test of `!locale.localize`
Truthy(capability) == capability = "function"

\* _lib/defaultLocale: en-US, whose options are { weekStartsOn: 0, ... }
defaultLocale == Locale("en-US", "function", "function", "function", Num(0))

\* locale objects a caller may pass as options.locale
OptionLocales ==
    { UndefinedLocale,
      Locale("fr", "function", "function", "function", Num(1)),
      Locale("bare", "function", "function", "function", Undefined),
      Locale("noLocalize", "undefined", "function", "function", Num(4)),
      Locale("noFormatLong", "function", "null", "function", Undefined),
      Locale("noFormatRelative", "function", "function", "undefined", Num(5)),
      Locale("empty", "undefined", "undefined", "undefined", Undefined) }

\* locale objects setDefaultOptions may have stored
DefaultOptionLocales ==
    { UndefinedLocale,
      Locale("de", "function", "function", "function", Num(3)),
      Locale("noFormatRelativeDefault", "function", "function", "null",
             Undefined) }

\* values a caller may pass as options.weekStartsOn
OptionWeekStarts ==
    { Undefined, Null, NaN, Frac(1), Num(-1), Num(6), Num(7) }

DefaultOptionWeekStarts == { Undefined, Num(2) }

\* the options argument: absent, or an object
NoOptions == [k |-> "undefined", locale |-> UndefinedLocale,
              weekStartsOn |-> Undefined]

OptionsObjects ==
    { [k |-> "object", locale |-> l, weekStartsOn |-> w] :
        l \in OptionLocales, w \in OptionWeekStarts }

\* _lib/defaultOptions: the process-wide default options object
DefaultOptionsObjects ==
    { [locale |-> l, weekStartsOn |-> w] :
        l \in DefaultOptionLocales, w \in DefaultOptionWeekStarts }

(***************************************************************************)
(* The instants offered as arguments.                                      *)
(***************************************************************************)
DateInstants ==
    { d * MILLISECONDS_IN_DAY + h * MILLISECONDS_IN_HOUR :
        d \in (0 - MaxDays)..MaxDays, h \in {1, 12} }

DirtyDates ==
    { DateOf(t) : t \in DateInstants } \cup { InvalidDate, Num(0) }

DirtyBaseDates ==
    { Num(0), DateOf(12 * MILLISECONDS_IN_HOUR), NaN, InvalidDate }

(***************************************************************************)
(* The locale's pattern and the generic formatter.                         *)
(***************************************************************************)
NoPattern == [locale |-> "", token |-> ""]

\* locale.formatRelative(token, utcDate, utcBaseDate, options): the pattern
\* the locale keeps for the token (formatRelativeLocale[token] in en-US)
LocaleFormatRelative(locale, token, utcDate, utcBaseDate, ws) ==
    [locale |-> locale.name, token |-> token]

NoString == [pattern |-> NoPattern, day |-> 0, hour |-> 0]

Pending == [k |-> "pending", error |-> "", msg |-> "", value |-> NoString]

Throw(error, msg) ==
    [k |-> "throw", error |-> error, msg |-> msg, value |-> NoString]

Return(string) == [k |-> "return", error |-> "", msg |-> "", value |-> string]

\* format(date, formatStr, {locale, weekStartsOn}): the checks it makes in
\* its own order, then the date's local fields rendered against the pattern
format(z, d, formatStr, locale, ws) ==
    IF ~(ws.k = "num" /\ ws.n >= 0 /\ ws.n <= 6)
    THEN Throw("RangeError",
               "weekStartsOn must be between 0 and 6 inclusively")
    ELSE IF ~Truthy(locale.localize)
    THEN Throw("RangeError", "locale must contain localize property")
    ELSE IF ~Truthy(locale.formatLong)
    THEN Throw("RangeError", "locale must contain formatLong property")
    ELSE IF d.k # "date"
    THEN Throw("RangeError", "Invalid time value")
    ELSE Return([pattern |-> formatStr, day |-> LocalDay(z, d.n),
                 hour |-> LocalHour(z, d.n)])

(***************************************************************************)
(* The statements of formatRelative.                                       *)
(***************************************************************************)
\* faulty variant: only one argument is required
ArityViolationLax(n) == requiredArgs(1, n)

\* requiredArgs(2, arguments)
ArityViolation(n) == requiredArgs(2, n)
\* faulty variant: the process-wide default locale is skipped
ResolveLocaleSkipDefaults(opts, defaults) ==
    IF opts.locale.kind # "undefined" THEN opts.locale ELSE defaultLocale

\* options?.locale ?? defaultOptions.locale ?? defaultLocale
ResolveLocale(opts, defaults) ==
    IF opts.locale.kind # "undefined" THEN opts.locale
    ELSE IF defaults.locale.kind # "undefined" THEN defaults.locale
    ELSE defaultLocale
\* faulty variant: the process-wide option is consulted before options.locale
ResolveWeekStartsOnSwapped(opts, defaults) ==
    toInteger(
        Coalesce(opts.weekStartsOn,
        Coalesce(defaults.weekStartsOn,
        Coalesce(opts.locale.weekStartsOn,
        Coalesce(defaults.locale.weekStartsOn,
                 Num(0))))))

\* toInteger(options?.weekStartsOn ?? options?.locale?.options?.weekStartsOn
\*   ?? defaultOptions.weekStartsOn
\*   ?? defaultOptions.locale?.options?.weekStartsOn ?? 0)
ResolveWeekStartsOn(opts, defaults) ==
    toInteger(
        Coalesce(opts.weekStartsOn,
        Coalesce(opts.locale.weekStartsOn,
        Coalesce(defaults.weekStartsOn,
        Coalesce(defaults.locale.weekStartsOn,
                 Num(0))))))
\* faulty variant: the formatRelative check is missing
LocaleErrorTwoChecks(locale) ==
    IF ~Truthy(locale.localize)
    THEN "locale must contain localize property"
    ELSE IF ~Truthy(locale.formatLong)
    THEN "locale must contain formatLong property"
    ELSE ""

\* faulty variant: formatLong is checked before localize
LocaleErrorSwapped(locale) ==
    IF ~Truthy(locale.formatLong)
    THEN "locale must contain formatLong property"
    ELSE IF ~Truthy(locale.localize)
    THEN "locale must contain localize property"
    ELSE IF ~Truthy(locale.formatRelative)
    THEN "locale must contain formatRelative property"
    ELSE ""

\* the three `if (!locale.x) throw` statements: the message thrown, or
\* "" when the locale passes all three
LocaleError(locale) ==
    IF ~Truthy(locale.localize)
    THEN "locale must contain localize property"
    ELSE IF ~Truthy(locale.formatLong)
    THEN "locale must contain formatLong property"
    ELSE IF ~Truthy(locale.formatRelative)
    THEN "locale must contain formatRelative property"
    ELSE ""
\* faulty variant: the NaN check is missing
DiffIsInvalidNever(d) == FALSE

\* if (isNaN(diff)) throw
DiffIsInvalid(d) == isNaN(d)

\* diff < c in JavaScript: false when diff is NaN
Less(d, c) == d.k = "num" /\ d.n < c

\* faulty variant: the first boundary is diff <= -6
TokenLastWeekShort(d) ==
    IF Less(d, -5) THEN "other"
    ELSE IF Less(d, -1) THEN "lastWeek"
    ELSE IF Less(d, 0) THEN "yesterday"
    ELSE IF Less(d, 1) THEN "today"
    ELSE IF Less(d, 2) THEN "tomorrow"
    ELSE IF Less(d, 7) THEN "nextWeek"
    ELSE "other"

\* faulty variant: the yesterday boundary is diff <= 0
TokenTodayAsYesterday(d) ==
    IF Less(d, -6) THEN "other"
    ELSE IF Less(d, -1) THEN "lastWeek"
    ELSE IF Less(d, 1) THEN "yesterday"
    ELSE IF Less(d, 2) THEN "tomorrow"
    ELSE IF Less(d, 7) THEN "nextWeek"
    ELSE "other"

\* the cascade that chooses the token
Token(d) ==
    IF Less(d, -6) THEN "other"
    ELSE IF Less(d, -1) THEN "lastWeek"
    ELSE IF Less(d, 0) THEN "yesterday"
    ELSE IF Less(d, 1) THEN "today"
    ELSE IF Less(d, 2) THEN "tomorrow"
    ELSE IF Less(d, 7) THEN "nextWeek"
    ELSE "other"

\* subMilliseconds(date, getTimezoneOffsetInMilliseconds(date))
UtcNormalize(z, d) == subMilliseconds(d, getTimezoneOffsetInMilliseconds(z, d))
\* faulty variant: the shifted date is rendered
FormatDateShifted(d, utc) == utc

\* the date handed to format in `return format(date, formatStr, ...)`
FormatDate(d, utc) == d
\* faulty variant: the resolved week start is not passed on
PassedWeekStartsOnDropped(ws) == Num(0)

\* the week start handed to format and to locale.formatRelative
PassedWeekStartsOn(ws) == ws

(***************************************************************************)
(* The state.                                                              *)
(***************************************************************************)
VARIABLES
    tz,              \* the runtime's time zone
    defaultOptions,  \* getDefaultOptions()
    nargs,           \* arguments.length
    dirtyDate, dirtyBaseDate, options,   \* the arguments
    pc,              \* the statement to run next
    date, baseDate, locale, weekStartsOn, diff, token,
    utcDate, utcBaseDate, formatStr,     \* the function's constants
    calls,           \* the collaborators called so far, in order
    result           \* Pending, or what the call threw or returned

inputs == <<tz, defaultOptions, nargs, dirtyDate, dirtyBaseDate, options>>

locals == <<date, baseDate, locale, weekStartsOn, diff, token,
            utcDate, utcBaseDate, formatStr>>

vars == <<inputs, pc, locals, calls, result>>

\* an entry of the call log
Call(fn, tok, d1, d2, pat, loc, ws) ==
    [fn |-> fn, token |-> tok, d1 |-> d1, d2 |-> d2, pattern |-> pat,
     locale |-> loc, weekStartsOn |-> ws]

CallToDate(v) ==
    Call("toDate", "", v, Undefined, NoPattern, UndefinedLocale, Undefined)

\* A missing argument is undefined, and options is the third argument.
Init ==
    /\ tz \in Zones
    /\ defaultOptions \in DefaultOptionsObjects
    /\ nargs \in 0..3
    /\ dirtyDate \in IF nargs >= 1 THEN DirtyDates ELSE {Undefined}
    /\ dirtyBaseDate \in IF nargs >= 2 THEN DirtyBaseDates ELSE {Undefined}
    /\ options \in IF nargs >= 3 THEN OptionsObjects ELSE {NoOptions}
    /\ pc = "requiredArgs"
    /\ date = Undefined
    /\ baseDate = Undefined
    /\ locale = UndefinedLocale
    /\ weekStartsOn = Undefined
    /\ diff = Undefined
    /\ token = ""
    /\ utcDate = Undefined
    /\ utcBaseDate = Undefined
    /\ formatStr = NoPattern
    /\ calls = <<>>
    /\ result = Pending

\* line 61
RequiredArgs ==
    /\ pc = "requiredArgs"
    /\ IF ArityViolation(nargs)
       THEN /\ result' = Throw("TypeError",
                               IF nargs = 0
                               THEN "2 arguments required, but only 0 present"
                               ELSE "2 arguments required, but only 1 present")
            /\ pc' = "thrown"
       ELSE /\ pc' = "toDate"
            /\ UNCHANGED result
    /\ UNCHANGED <<inputs, locals, calls>>

\* lines 63-64
ToDate ==
    /\ pc = "toDate"
    /\ date' = toDate(dirtyDate)
    /\ baseDate' = toDate(dirtyBaseDate)
    /\ calls' = calls \o <<CallToDate(dirtyDate), CallToDate(dirtyBaseDate)>>
    /\ pc' = "options"
    /\ UNCHANGED <<inputs, locale, weekStartsOn, diff, token, utcDate,
                   utcBaseDate, formatStr, result>>

\* lines 66-74
ResolveOptions ==
    /\ pc = "options"
    /\ locale' = ResolveLocale(options, defaultOptions)
    /\ weekStartsOn' = ResolveWeekStartsOn(options, defaultOptions)
    /\ pc' = "locale"
    /\ UNCHANGED <<inputs, date, baseDate, diff, token, utcDate,
                   utcBaseDate, formatStr, calls, result>>

\* lines 76-86
CheckLocale ==
    /\ pc = "locale"
    /\ IF LocaleError(locale) # ""
       THEN /\ result' = Throw("RangeError", LocaleError(locale))
            /\ pc' = "thrown"
       ELSE /\ pc' = "diff"
            /\ UNCHANGED result
    /\ UNCHANGED <<inputs, locals, calls>>

\* lines 88-92
Diff ==
    /\ pc = "diff"
    /\ diff' = differenceInCalendarDays(tz, date, baseDate)
    /\ calls' = Append(calls, Call("differenceInCalendarDays", "", date,
                                   baseDate, NoPattern, UndefinedLocale,
                                   Undefined))
    /\ IF DiffIsInvalid(diff')
       THEN /\ result' = Throw("RangeError", "Invalid time value")
            /\ pc' = "thrown"
       ELSE /\ pc' = "token"
            /\ UNCHANGED result
    /\ UNCHANGED <<inputs, date, baseDate, locale, weekStartsOn, token,
                   utcDate, utcBaseDate, formatStr>>

\* lines 94-109
Classify ==
    /\ pc = "token"
    /\ token' = Token(diff)
    /\ pc' = "utc"
    /\ UNCHANGED <<inputs, date, baseDate, locale, weekStartsOn, diff,
                   utcDate, utcBaseDate, formatStr, calls, result>>

\* lines 111-115
Normalize ==
    /\ pc = "utc"
    /\ utcDate' = UtcNormalize(tz, date)
    /\ utcBaseDate' = UtcNormalize(tz, baseDate)
    /\ pc' = "formatRelative"
    /\ UNCHANGED <<inputs, date, baseDate, locale, weekStartsOn, diff,
                   token, formatStr, calls, result>>

\* lines 116-119
CallLocaleFormatRelative ==
    /\ pc = "formatRelative"
    /\ formatStr' = LocaleFormatRelative(locale, token, utcDate, utcBaseDate,
                                         PassedWeekStartsOn(weekStartsOn))
    /\ calls' = Append(calls, Call("locale.formatRelative", token, utcDate,
                                   utcBaseDate, NoPattern, locale,
                                   PassedWeekStartsOn(weekStartsOn)))
    /\ pc' = "format"
    /\ UNCHANGED <<inputs, date, baseDate, locale, weekStartsOn, diff,
                   token, utcDate, utcBaseDate, result>>

\* line 120
CallFormat ==
    /\ pc = "format"
    /\ LET d == FormatDate(date, utcDate)
           ws == PassedWeekStartsOn(weekStartsOn)
       IN  /\ calls' = Append(calls, Call("format", "", d, Undefined,
                                          formatStr, locale, ws))
           /\ result' = format(tz, d, formatStr, locale, ws)
    /\ pc' = IF result'.k = "throw" THEN "thrown" ELSE "returned"
    /\ UNCHANGED <<inputs, locals>>

Next ==
    \/ RequiredArgs
    \/ ToDate
    \/ ResolveOptions
    \/ CheckLocale
    \/ Diff
    \/ Classify
    \/ Normalize
    \/ CallLocaleFormatRelative
    \/ CallFormat

Spec == Init /\ [][Next]_vars

(***************************************************************************)
(* Properties.                                                             *)
(***************************************************************************)
Ended == pc \in {"thrown", "returned"}

\* the calls of the log made to fn
CallsTo(fn) == { i \in 1..Len(calls) : calls[i].fn = fn }

\* the arguments as toDate reads them
GivenDate == toDate(dirtyDate)

GivenBaseDate == toDate(dirtyBaseDate)

DatesValid == GivenDate.k = "date" /\ GivenBaseDate.k = "date"

\* the locale the call resolves, read off the arguments
GivenLocale ==
    IF options.locale.kind = "object" THEN options.locale
    ELSE IF defaultOptions.locale.kind = "object" THEN defaultOptions.locale
    ELSE defaultLocale

Complete(l) ==
    Truthy(l.localize) /\ Truthy(l.formatLong) /\ Truthy(l.formatRelative)

\* the distance table of the documentation
TokenOfDistance(n) ==
    CASE n < -6 -> "other"
      [] -6 <= n /\ n < -1 -> "lastWeek"
      [] n = -1 -> "yesterday"
      [] n = 0 -> "today"
      [] n = 1 -> "tomorrow"
      [] 2 <= n /\ n < 7 -> "nextWeek"
      [] n >= 7 -> "other"

\* C1: once the token is chosen, diff is an integer and the token is the
\* one the distance table gives for diff, boundaries included; it is the
\* token handed to locale.formatRelative.
C1_TokenIsFunctionOfDiff ==
    /\ token # "" =>
        /\ diff.k = "num"
        /\ diff = differenceInCalendarDays(tz, GivenDate, GivenBaseDate)
        /\ token = TokenOfDistance(diff.n)
        /\ diff.n = -7 => token = "other"
        /\ diff.n = -6 => token = "lastWeek"
        /\ diff.n = -1 => token = "yesterday"
        /\ diff.n = 0 => token = "today"
        /\ diff.n = 1 => token = "tomorrow"
        /\ diff.n = 6 => token = "nextWeek"
        /\ diff.n = 7 => token = "other"
    /\ \A i \in CallsTo("locale.formatRelative") :
        /\ diff.k = "num"
        /\ calls[i].token = TokenOfDistance(diff.n)
    /\ (pc = "utc" /\ DatesValid) => token # ""

C1_Witness ==
    /\ diff = Num(-6)
    /\ token = "lastWeek"
    /\ CallsTo("locale.formatRelative") # {}

\* C2 as stated: every call with two arguments or more in which date or
\* baseDate is invalid ends in RangeError 'Invalid time value'.
C2_InvalidDateAlwaysRaisesInvalidTime ==
    (nargs >= 2 /\ ~DatesValid /\ Ended)
        => result = Throw("RangeError", "Invalid time value")

\* C2 as amended: when the resolved locale has its three capabilities,
\* every call with two arguments or more in which date or baseDate is
\* invalid ends in RangeError 'Invalid time value', chooses no token,
\* calls neither the locale nor format and returns no string.
C2_InvalidDateRaisesWhenLocaleComplete ==
    (nargs >= 2 /\ ~DatesValid /\ Complete(GivenLocale)) =>
        /\ pc \in {"requiredArgs", "toDate", "options", "locale", "diff",
                   "thrown"}
        /\ token = ""
        /\ CallsTo("locale.formatRelative") = {}
        /\ CallsTo("format") = {}
        /\ Ended => result = Throw("RangeError", "Invalid time value")

C2_Witness ==
    /\ nargs >= 2
    /\ GivenDate.k = "date"
    /\ GivenBaseDate.k # "date"
    /\ Complete(GivenLocale)
    /\ result = Throw("RangeError", "Invalid time value")

\* C3: a call with fewer than two arguments throws the TypeError with no
\* collaborator called and nothing parsed, resolved or computed.
C3_ArityErrorBeforeParsing ==
    nargs < 2 =>
        /\ pc \in {"requiredArgs", "thrown"}
        /\ calls = <<>>
        /\ date = Undefined /\ baseDate = Undefined
        /\ locale = UndefinedLocale /\ weekStartsOn = Undefined
        /\ diff = Undefined /\ token = "" /\ formatStr = NoPattern
        /\ pc = "thrown" => result.k = "throw" /\ result.error = "TypeError"

C3_Witness ==
    /\ nargs = 1
    /\ dirtyDate.k = "date"
    /\ pc = "thrown"
    /\ result.error = "TypeError"

LocaleMessages ==
    { "locale must contain localize property",
      "locale must contain formatLong property",
      "locale must contain formatRelative property" }

\* C4: a locale error names a capability the resolved locale lacks; a
\* locale lacking exactly one capability is reported with that capability's
\* message, in particular formatRelative when localize and formatLong are
\* present; a call whose locale lacks a capability returns no string.
C4_LocaleErrorNamesMissingCapability ==
    (nargs >= 2 /\ Ended) =>
        /\ (result.k = "throw" /\ result.msg \in LocaleMessages) =>
            /\ result.error = "RangeError"
            /\ result.msg = "locale must contain localize property"
                   => ~Truthy(GivenLocale.localize)
            /\ result.msg = "locale must contain formatLong property"
                   => ~Truthy(GivenLocale.formatLong)
            /\ result.msg = "locale must contain formatRelative property"
                   => ~Truthy(GivenLocale.formatRelative)
        /\ ~Complete(GivenLocale) =>
            /\ result.k = "throw"
            /\ result.msg \in LocaleMessages
        /\ (/\ ~Truthy(GivenLocale.localize)
            /\ Truthy(GivenLocale.formatLong)
            /\ Truthy(GivenLocale.formatRelative))
               => result.msg = "locale must contain localize property"
        /\ (/\ Truthy(GivenLocale.localize)
            /\ ~Truthy(GivenLocale.formatLong)
            /\ Truthy(GivenLocale.formatRelative))
               => result.msg = "locale must contain formatLong property"
        /\ (/\ Truthy(GivenLocale.localize)
            /\ Truthy(GivenLocale.formatLong)
            /\ ~Truthy(GivenLocale.formatRelative))
               => result = Throw("RangeError",
                        "locale must contain formatRelative property")

C4_Witness ==
    /\ Truthy(locale.localize)
    /\ Truthy(locale.formatLong)
    /\ ~Truthy(locale.formatRelative)
    /\ DatesValid
    /\ result = Throw("RangeError",
                      "locale must contain formatRelative property")

\* the first value of a sequence that is neither undefined nor null
RECURSIVE FirstDefined(_)
FirstDefined(seq) ==
    IF Len(seq) = 1 \/ ~Nullish(Head(seq)) THEN Head(seq)
    ELSE FirstDefined(Tail(seq))

\* truncation of a value to an integer
Truncated(v) == IF v.k = "num" THEN [v EXCEPT !.frac = FALSE] ELSE NaN

WeekStartSources ==
    << options.weekStartsOn, options.locale.weekStartsOn,
       defaultOptions.weekStartsOn, defaultOptions.locale.weekStartsOn,
       Num(0) >>

\* C5: the week start resolved, and handed to locale.formatRelative and to
\* format, is the integer coercion of the first defined value among
\* options.weekStartsOn, the weekStartsOn of options.locale, the
\* process-wide weekStartsOn, the weekStartsOn of the process-wide locale
\* and 0.
C5_WeekStartsOnPriority ==
    /\ pc \notin {"requiredArgs", "toDate", "options"} /\ nargs >= 2
           => weekStartsOn = Truncated(FirstDefined(WeekStartSources))
    /\ \A i \in CallsTo("locale.formatRelative") \cup CallsTo("format") :
           calls[i].weekStartsOn = Truncated(FirstDefined(WeekStartSources))

\* the process-wide option wins over the process-wide locale, which is the
\* resolved locale here, and both calls have been made with it
C5_Witness ==
    /\ options.k = "object"
    /\ Nullish(options.weekStartsOn)
    /\ options.locale.kind = "undefined"
    /\ defaultOptions.weekStartsOn = Num(2)
    /\ defaultOptions.locale.weekStartsOn = Num(3)
    /\ locale = defaultOptions.locale
    /\ CallsTo("locale.formatRelative") # {}
    /\ \E i \in CallsTo("format") : calls[i].weekStartsOn = Num(2)

\* the date shifted by the local offset in force at that very instant
Shifted(d) == DateOf(d.n + LocalOffset(tz, d.n))

\* C6: the day difference is taken of the original dates and the token is
\* the table's token for their local calendar days; locale.formatRelative
\* receives each date shifted by its own offset; format receives the
\* original date and the pattern the locale returned, and the string
\* returned shows the original date's local day and hour.
C6_OriginalDateRendered ==
    /\ \A i \in CallsTo("differenceInCalendarDays") :
        calls[i].d1 = GivenDate /\ calls[i].d2 = GivenBaseDate
    /\ \A i \in CallsTo("locale.formatRelative") :
        /\ DatesValid
        /\ calls[i].token =
               TokenOfDistance(LocalDay(tz, GivenDate.n)
                               - LocalDay(tz, GivenBaseDate.n))
        /\ calls[i].d1 = Shifted(GivenDate)
        /\ calls[i].d2 = Shifted(GivenBaseDate)
    /\ \A i \in CallsTo("format") :
        /\ calls[i].d1 = GivenDate
        /\ calls[i].pattern = formatStr
        /\ calls[i].pattern =
               LocaleFormatRelative(GivenLocale, token, Shifted(GivenDate),
                                    Shifted(GivenBaseDate), weekStartsOn)
    /\ pc = "returned" =>
        /\ result.value.pattern = formatStr
        /\ result.value.day = LocalDay(tz, GivenDate.n)
        /\ result.value.hour = LocalHour(tz, GivenDate.n)

\* date and baseDate lie on different sides of the zone's transition
C6_Witness ==
    /\ pc = "returned"
    /\ DatesValid
    /\ LocalOffset(tz, GivenDate.n) # LocalOffset(tz, GivenBaseDate.n)
    /\ LocalOffset(tz, GivenDate.n) # 0
    /\ utcDate # date
    /\ LocalHour(tz, utcDate.n) # LocalHour(tz, date.n)
    /\ result.value.hour = LocalHour(tz, date.n)

InWeek(ws) == ws.k = "num" /\ ws.n >= 0 /\ ws.n <= 6

\* C7: with valid dates and a complete locale, a resolved weekStartsOn
\* outside 0..6 makes the call end in a RangeError and return no string;
\* formatRelative itself lets the value through to locale.formatRelative
\* and to format, and it is format that throws.
C7_WeekStartsOnOutOfRangeThrows ==
    (/\ nargs >= 2 /\ DatesValid /\ Complete(GivenLocale)
     /\ ~InWeek(Truncated(FirstDefined(WeekStartSources)))) =>
        /\ pc # "returned"
        /\ pc = "thrown" =>
            /\ result.k = "throw"
            /\ result.error = "RangeError"
            /\ CallsTo("locale.formatRelative") # {}
            /\ calls[Len(calls)].fn = "format"
            /\ ~InWeek(calls[Len(calls)].weekStartsOn)

C7_Witness ==
    /\ options.weekStartsOn = Num(7)
    /\ DatesValid
    /\ Complete(locale)
    /\ pc = "thrown"
    /\ calls[Len(calls)].fn = "format"
    /\ result.error = "RangeError"

\* C8: when date and baseDate are the same valid instant the token is
\* 'today', locale.formatRelative is called with 'today', and the string
\* returned is that instant rendered against the locale's 'today' pattern.
C8_SameInstantIsToday ==
    (nargs >= 2 /\ DatesValid /\ GivenDate = GivenBaseDate) =>
        /\ token \in {"", "today"}
        /\ pc \in {"utc", "formatRelative", "format", "returned"}
               => token = "today"
        /\ \A i \in CallsTo("locale.formatRelative") :
               calls[i].token = "today"
        /\ pc = "returned" =>
               result = Return([pattern |-> [locale |-> GivenLocale.name,
                                             token |-> "today"],
                                day |-> LocalDay(tz, GivenDate.n),
                                hour |-> LocalHour(tz, GivenDate.n)])

C8_Witness ==
    /\ dirtyDate = DateOf(12 * MILLISECONDS_IN_HOUR)
    /\ dirtyBaseDate = dirtyDate
    /\ pc = "returned"
    /\ result.value.pattern.token = "today"

\* formatRelative's own checks fail on these arguments
OwnCheckFails == nargs < 2 \/ ~Complete(GivenLocale) \/ ~DatesValid

\* C9: the locale checked and passed on is options.locale when supplied,
\* else the process-wide locale when set, else the built-in one; it is
\* never replaced; and when one of formatRelative's own checks fails,
\* neither locale.formatRelative nor format is called and nothing is
\* returned.
C9_LocaleResolvedOnceNoFallback ==
    /\ (nargs >= 2 /\ pc \notin {"requiredArgs", "toDate", "options"})
           => locale = GivenLocale
    /\ \A i \in CallsTo("locale.formatRelative") \cup CallsTo("format") :
           calls[i].locale = GivenLocale
    /\ pc = "returned" => result.value.pattern.locale = GivenLocale.name
    /\ OwnCheckFails =>
        /\ CallsTo("locale.formatRelative") = {}
        /\ CallsTo("format") = {}
        /\ formatStr = NoPattern
        /\ pc # "returned"
        /\ Ended => result.k = "throw"

\* no options.locale, a process-wide locale that lacks formatRelative: the
\* call fails although the built-in locale is complete
C9_Witness ==
    /\ nargs >= 2
    /\ options.locale.kind = "undefined"
    /\ defaultOptions.locale.kind = "object"
    /\ ~Truthy(defaultOptions.locale.formatRelative)
    /\ locale = defaultOptions.locale
    /\ pc = "thrown"
    /\ calls # <<>>

\* the error formatRelative's own checks report, by precedence
OwnError ==
    IF nargs < 2 THEN "TypeError"
    ELSE IF ~Truthy(GivenLocale.localize)
    THEN "locale must contain localize property"
    ELSE IF ~Truthy(GivenLocale.formatLong)
    THEN "locale must contain formatLong property"
    ELSE IF ~Truthy(GivenLocale.formatRelative)
    THEN "locale must contain formatRelative property"
    ELSE IF ~DatesValid THEN "Invalid time value"
    ELSE ""

\* C10: a call that ends has reported the first failure in the order
\* arity, localize, formatLong, formatRelative, invalid time value, and
\* only that one; with none of them it got as far as calling format.
C10_ErrorPrecedence ==
    Ended =>
        /\ OwnError = "TypeError" =>
               result.k = "throw" /\ result.error = "TypeError"
        /\ OwnError \notin {"", "TypeError"} =>
               result = Throw("RangeError", OwnError)
        /\ OwnError = "" => CallsTo("format") # {}

\* an invalid date together with a locale that lacks everything
C10_Witness ==
    /\ nargs >= 2
    /\ ~DatesValid
    /\ ~Truthy(locale.localize)
    /\ ~Truthy(locale.formatLong)
    /\ ~Truthy(locale.formatRelative)
    /\ result = Throw("RangeError", "locale must contain localize property")

====
